---- MODULE Spec2Model ----
(***************************************************************************)
(* Model of topic-4_deep-learning-protein-structures/day_2/make_dataset.py *)
(* select_ids (candidate join, row filter, per-cluster selection) and      *)
(* main / process_id / save_system (pool of workers writing structure      *)
(* files, manifest aggregation).                                           *)
(***************************************************************************)
EXTENDS Integers, Sequences, FiniteSets, TLC

\* ------------------------------------------------------------------------
\* Bounds of the model
\* ------------------------------------------------------------------------
\* rows of the primary index, summed over the three splits of one run
MaxRows == 3
\* tasks of one run of main (selected identifiers summed over the splits)
MaxTasks == 2

\* ------------------------------------------------------------------------
\* Values
\* ------------------------------------------------------------------------
\* the null a left merge puts in a numeric metadata column of an unmatched row
NaN == -1
\* the null of a string column (a token that is no character)
StrNaN == <<"NaN">>

\* for split in ["train", "val", "test"]
Splits == <<"train", "val", "test">>

SplitNames == {Splits[i] : i \in 1..Len(Splits)}

\* defaults of select_ids' parameters
max_per_cluster_default == 2
max_length_default == 1024
max_length_per_monomer_default == 512
min_length_per_monomer_default == 50

DefaultConfig ==
  [max_per_cluster |-> max_per_cluster_default,
   max_length |-> max_length_default,
   max_length_per_monomer |-> max_length_per_monomer_default,
   min_length_per_monomer |-> min_length_per_monomer_default]

\* Pool(20)
PoolWidth == 20

\* ------------------------------------------------------------------------
\* Strings: a string is a sequence of characters, "," among them
\* ------------------------------------------------------------------------
Comma == ","

RECURSIVE FirstComma(_, _)
FirstComma(s, i) ==
  IF i > Len(s) THEN 0
  ELSE IF s[i] = Comma THEN i ELSE FirstComma(s, i + 1)

\* str.split(","): the list of the pieces between the commas ("" gives [""])
RECURSIVE StrSplit(_)
StrSplit(s) ==
  LET i == FirstComma(s, 1)
  IN IF i = 0 THEN << s >>
     ELSE << SubSeq(s, 1, i - 1) >> \o StrSplit(SubSeq(s, i + 1, Len(s)))

\* .apply(set) on a list of pieces
ToSet(l) == {l[i] : i \in 1..Len(l)}

\* ------------------------------------------------------------------------
\* select_ids: the join, the derived columns, the row filter
\* ------------------------------------------------------------------------
\* the rows of the metadata with the id of index row r, in metadata order
MetadataOf(r, metadata) ==
  LET hit(m) == m.id = r.id
  IN SelectSeq(metadata, hit)

\* index row r with the metadata column resolution (the one metadata column
\* select_ids reads that the index is not taken to have), and the column
\* length the frame gets on line 32 (null until then)
JoinedRow(r, resolution) ==
  [id |-> r.id, cluster_id |-> r.cluster_id, cluster_id_L |-> r.cluster_id_L,
   cluster_id_R |-> r.cluster_id_R, length1 |-> r.length1,
   length2 |-> r.length2, label |-> r.label, method |-> r.method,
   uniprot_L |-> r.uniprot_L, uniprot_R |-> r.uniprot_R,
   ECOD_names_L |-> r.ECOD_names_L, ECOD_names_R |-> r.ECOD_names_R,
   filters_pass |-> r.filters_pass, resolution |-> resolution, length |-> NaN]

\* one row of the left frame joined with its matches (nulls when it has none)
MergeRow(r, metadata) ==
  LET ms == MetadataOf(r, metadata)
  IN IF ms = << >>
     THEN << JoinedRow(r, NaN) >>
     ELSE [i \in 1..Len(ms) |-> JoinedRow(r, ms[i].resolution)]

\* loader.index.merge(loader.metadata, on="id", how="left")
RECURSIVE Merge(_, _)
Merge(index, metadata) ==
  IF index = << >> THEN << >>
  ELSE MergeRow(Head(index), metadata) \o Merge(Tail(index), metadata)

\* .astype("float32"): a narrower float, so neighbouring values collapse to
\* one (resolutions are counted in half float32 steps: 2k and 2k+1 both
\* become 2k); a null stays null
Float32(x) == IF x = NaN THEN NaN ELSE 2 * (x \div 2)

\* index["length"] = ...; index["resolution"] = ....astype("float32")
WithDerived(r) ==
  [r EXCEPT !.resolution = Float32(r.resolution),
            !.length = r.length1 + r.length2]

Derive(index) == [i \in 1..Len(index) |-> WithDerived(index[i])]

\* .str.split(",").apply(set) raises TypeError on a null cell
EcodRaises(index) ==
  \E i \in 1..Len(index) :
    index[i].ECOD_names_R = StrNaN \/ index[i].ECOD_names_L = StrNaN

\* ~(set(R.split(",")) & set(L.split(","))).astype(bool)
EcodDisjoint(r) ==
  (ToSet(StrSplit(r.ECOD_names_R)) \cap ToSet(StrSplit(r.ECOD_names_L))) = {}

\* RowMask without the domain-name conjunct
RowMask_NoEcod(r, cfg) ==
  /\ r.length <= cfg.max_length
  /\ r.length1 <= cfg.max_length_per_monomer
  /\ r.length2 <= cfg.max_length_per_monomer
  /\ r.length1 >= cfg.min_length_per_monomer
  /\ r.length2 >= cfg.min_length_per_monomer
  /\ r.label = "BIO"
  /\ r.method = "X-RAY DIFFRACTION"
  /\ r.cluster_id_L # r.cluster_id_R
  /\ r.uniprot_R # r.uniprot_L

\* the boolean mask of lines 34-45, for one row
RowMask(r, cfg) ==
  /\ r.length <= cfg.max_length
  /\ r.length1 <= cfg.max_length_per_monomer
  /\ r.length2 <= cfg.max_length_per_monomer
  /\ r.length1 >= cfg.min_length_per_monomer
  /\ r.length2 >= cfg.min_length_per_monomer
  /\ r.label = "BIO"
  /\ r.method = "X-RAY DIFFRACTION"
  /\ r.cluster_id_L # r.cluster_id_R
  /\ r.uniprot_R # r.uniprot_L
  /\ EcodDisjoint(r)

\* index[mask].reset_index(drop=True)
RowFilter(index, cfg) ==
  LET keep(r) == RowMask(r, cfg)
  IN SelectSeq(index, keep)

\* ------------------------------------------------------------------------
\* select_ids: the per-cluster selection
\* ------------------------------------------------------------------------
\* resolution ascending with nulls last (na_position="last")
ResolutionBefore(a, b) ==
  /\ a # b
  /\ a # NaN
  /\ b = NaN \/ a < b

\* SortsBefore without the identifier as the second key
SortsBefore_ResolutionOnly(a, b) ==
  ResolutionBefore(a.resolution, b.resolution)

\* the order of sort_values(["resolution", "id"], ascending=[True, True])
SortsBefore(a, b) ==
  \/ ResolutionBefore(a.resolution, b.resolution)
  \/ a.resolution = b.resolution /\ a.id < b.id

\* insert r into a sorted frame, after the rows it does not sort before
RECURSIVE Insert(_, _)
Insert(r, sorted) ==
  IF sorted = << >> THEN << r >>
  ELSE IF SortsBefore(r, Head(sorted)) THEN << r >> \o sorted
  ELSE << Head(sorted) >> \o Insert(r, Tail(sorted))

\* index.sort_values(["resolution", "id"], ascending=[True, True])
RECURSIVE SortValues(_)
SortValues(index) ==
  IF index = << >> THEN << >>
  ELSE Insert(index[Len(index)], SortValues(SubSeq(index, 1, Len(index) - 1)))

\* GroupByHead taking the first n rows of the frame, not of every group
GroupByHead_Ungrouped(index, n) ==
  {index[i] : i \in {j \in 1..Len(index) : j <= n}}

\* .groupby("cluster_id").head(n): the first n rows of every group, in
\* frame order
GroupByHead(index, n) ==
  LET earlier(i) == {j \in 1..(i - 1) : index[j].cluster_id = index[i].cluster_id}
      idx == {i \in 1..Len(index) : Cardinality(earlier(i)) < n}
  IN {index[i] : i \in idx}

\* set(...["id"])
IdsOf(rows) == {r.id : r \in rows}

\* lines 31-33: the joined frame with its derived columns
Joined(loader) == Derive(Merge(loader.index, loader.metadata))

\* lines 46-55: the identifiers kept for one split
ClusterSelect(index, cfg) ==
  IdsOf(GroupByHead(SortValues(index), cfg.max_per_cluster))

\* ------------------------------------------------------------------------
\* The candidate tables a loader can hand to select_ids
\* ------------------------------------------------------------------------
\* identifiers are numbered in their string order
ClusterIds == {"C1", "C2"}

\* resolutions as read from the metadata, before the cast
Resolutions == {0, 1, 2}

\* a candidate that passes every bound of the row filter
GoodRow(i, c) ==
  [id |-> i, cluster_id |-> c, cluster_id_L |-> "cL", cluster_id_R |-> "cR",
   length1 |-> 100, length2 |-> 120, label |-> "BIO",
   method |-> "X-RAY DIFFRACTION", uniprot_L |-> "P1", uniprot_R |-> "P2",
   ECOD_names_L |-> <<"a">>, ECOD_names_R |-> <<"b">>,
   filters_pass |-> TRUE]

\* what one row of a table may differ in from GoodRow
IndexDeviations ==
  {"len1_over", "len2_over", "len1_under", "len2_under", "at_max", "at_min",
   "label", "method", "same_cluster", "same_uniprot", "ecod_shared",
   "ecod_prefix", "ecod_empty", "ecod_null_L", "ecod_null_R", "filters_fail"}

MetadataDeviations == {"no_metadata", "dup_metadata"}

Deviate(r, d) ==
  CASE d = "len1_over" -> [r EXCEPT !.length1 = 513]
    [] d = "len2_over" -> [r EXCEPT !.length2 = 513]
    [] d = "len1_under" -> [r EXCEPT !.length1 = 49]
    [] d = "len2_under" -> [r EXCEPT !.length2 = 49]
    [] d = "at_max" -> [r EXCEPT !.length1 = 512, !.length2 = 512]
    [] d = "at_min" -> [r EXCEPT !.length1 = 50, !.length2 = 50]
    [] d = "label" -> [r EXCEPT !.label = "XTAL"]
    [] d = "method" -> [r EXCEPT !.method = "SOLUTION NMR"]
    [] d = "same_cluster" -> [r EXCEPT !.cluster_id_L = "cR"]
    [] d = "same_uniprot" -> [r EXCEPT !.uniprot_L = "P2"]
    [] d = "ecod_shared" -> [r EXCEPT !.ECOD_names_L = <<"a", ",", "b">>]
    [] d = "ecod_prefix" -> [r EXCEPT !.ECOD_names_L = <<"b", "a">>]
    [] d = "ecod_empty" -> [r EXCEPT !.ECOD_names_L = << >>, !.ECOD_names_R = << >>]
    [] d = "ecod_null_L" -> [r EXCEPT !.ECOD_names_L = StrNaN]
    [] d = "ecod_null_R" -> [r EXCEPT !.ECOD_names_R = StrNaN]
    [] d = "filters_fail" -> [r EXCEPT !.filters_pass = FALSE]
    [] OTHER -> r

\* the metadata rows of candidate i
MetadataRows(i, res, d) ==
  CASE d = "no_metadata" -> << >>
    [] d = "dup_metadata" -> << [id |-> i, resolution |-> res], [id |-> i, resolution |-> 2] >>
    [] OTHER -> << [id |-> i, resolution |-> res] >>

RECURSIVE Concat(_, _)
Concat(f, n) == IF n = 0 THEN << >> ELSE Concat(f, n - 1) \o f[n]

\* where a table deviates: nowhere, or at one row one way taken from devs
DeviationsAt(n, devs) == {<< 0, "none" >>} \cup ((1..n) \X devs)

\* the cluster of every candidate 1..n; cluster names are interchangeable,
\* so the first candidate's is "C1"
ClusterMaps(n, clusters) ==
  {f \in [1..n -> clusters] : n = 0 \/ f[1] = "C1"}

\* the loader with clusters cl, resolutions res and deviation at
Loader(n, cl, res, at) ==
  [index |-> [i \in 1..n |-> Deviate(GoodRow(i, cl[i]), IF i = at[1] THEN at[2] ELSE "none")],
   metadata |-> Concat([i \in 1..n |-> MetadataRows(i, res[i], IF i = at[1] THEN at[2] ELSE "none")], n)]

\* the loaders of a split whose primary index has n rows, candidates 1..n in
\* any clusters: either every row is a GoodRow of any resolution, but for one
\* row's metadata at most; or one row deviates in the index one way and the
\* resolutions are all the same
Loaders(n, clusters, resolutions, mdevs, idevs) ==
  {Loader(n, cl, res, at) :
     cl \in ClusterMaps(n, clusters), res \in [1..n -> resolutions],
     at \in DeviationsAt(n, mdevs)}
  \cup
  {Loader(n, cl, [i \in 1..n |-> 1], at) :
     cl \in ClusterMaps(n, clusters), at \in (1..n) \X idevs}

\* the loader of a split that was not loaded
NoLoader == [index |-> << >>, metadata |-> << >>]

\* the parameters select_ids is checked with: the defaults, and a tighter
\* cap and total length
Configs ==
  {DefaultConfig,
   [DefaultConfig EXCEPT !.max_per_cluster = 1, !.max_length = 600]}

\* the row counts of the three splits' indexes, total rows at most
SplitSizes(total) ==
  {f \in [SplitNames -> 0..total] : f["train"] + f["val"] + f["test"] <= total}

\* ------------------------------------------------------------------------
\* The filesystem and Path.mkdir
\* ------------------------------------------------------------------------
\* a path is the sequence of its parts; the working directory is there
Cwd == << >>

\* Path("hackathon_data")
data_dir == << "hackathon_data" >>

Parent(p) == SubSeq(p, 1, Len(p) - 1)

\* no data.csv
NoManifest == [written |-> FALSE, columns |-> {}, rows |-> << >>]

\* a pending call p.mkdir(parents=.., exist_ok=..)
MkdirCall(p, parents, exist_ok) ==
  [path |-> p, parents |-> parents, exist_ok |-> exist_ok]

\* system_folder.mkdir(..., exist_ok=False)
SystemFolderMkdir_NoExistOk(system_folder) ==
  << MkdirCall(system_folder, TRUE, FALSE) >>

\* system_folder.mkdir(parents=True, exist_ok=True)
SystemFolderMkdir(system_folder) ==
  << MkdirCall(system_folder, TRUE, TRUE) >>

\* data_dir.mkdir(parents=True, exist_ok=True)
DataDirMkdir == << MkdirCall(data_dir, TRUE, TRUE) >>

\* one os.mkdir of the innermost pending call and what Path.mkdir makes of
\* its outcome: the directory is made; or it is there already, which is
\* passed over with exist_ok and raised without; or its parent is missing,
\* which with parents makes the parent first (exist_ok) and then tries again
MkdirStep(mk, ds) ==
  LET c == Head(mk)
  IN IF c.path \in ds
     THEN IF c.exist_ok
          THEN [mk |-> Tail(mk), dirs |-> ds, error |-> "none"]
          ELSE [mk |-> << >>, dirs |-> ds, error |-> "FileExistsError"]
     ELSE IF Parent(c.path) \notin ds
     THEN IF c.parents /\ c.path # Cwd
          THEN [mk |-> << MkdirCall(Parent(c.path), TRUE, TRUE),
                          MkdirCall(c.path, FALSE, c.exist_ok) >> \o Tail(mk),
                dirs |-> ds, error |-> "none"]
          ELSE [mk |-> << >>, dirs |-> ds, error |-> "FileNotFoundError"]
     ELSE [mk |-> Tail(mk), dirs |-> ds \cup {c.path}, error |-> "none"]

\* ------------------------------------------------------------------------
\* State
\* ------------------------------------------------------------------------
VARIABLES
  pc,         \* where main is, or the exception that ended it
  cfg,        \* the parameters of the select_ids call
  nrows,      \* the dataset: rows of each split's primary index
  split,      \* select_ids: the loop variable
  loader,     \* select_ids: the PinderLoader of the current split
  index,      \* select_ids: the frame after the row filter
  split_ids,  \* select_ids: the dictionary built so far; then main's
  tasks,      \* main: the task list
  pool,       \* main: the worker pool ("none", "open", "terminated")
  task,       \* the pool: per task, where process_id is and its locals
  dirs,       \* the filesystem: the directories there are
  files,      \* the filesystem: the structure files written
  rows,       \* main: the rows imap has yielded so far
  manifest    \* the filesystem: data.csv

selectVars == << cfg, nrows, split, loader, index, split_ids >>

poolVars == << tasks, pool, task, dirs, files, rows, manifest >>

vars == << pc, selectVars, poolVars >>

\* the splits the loop has still to do, first first
RECURSIVE Remaining(_)
Remaining(i) ==
  IF i > Len(Splits) THEN << >>
  ELSE IF Splits[i] \in DOMAIN split_ids THEN Remaining(i + 1)
  ELSE << Splits[i] >> \o Remaining(i + 1)

InitLocals ==
  /\ pc = "select_ids"
  /\ split = "none"
  /\ loader = NoLoader
  /\ index = << >>
  /\ split_ids = [s \in {} |-> {}]
  /\ tasks = << >>
  /\ pool = "none"
  /\ task = << >>
  /\ files = {}
  /\ rows = << >>
  /\ manifest = NoManifest

\* one iteration of the loop of select_ids (lines 24-56): load the split,
\* join, filter, select; a null ECOD cell raises out of select_ids and main
SelectSplit(clusters, resolutions, mdevs, idevs) ==
  /\ pc = "select_ids"
  /\ Remaining(1) # << >>
  /\ LET s == Head(Remaining(1))
     IN \E ld \in Loaders(nrows[s], clusters, resolutions, mdevs, idevs) :
          /\ split' = s
          /\ loader' = ld
          /\ IF EcodRaises(Joined(ld))
             THEN /\ pc' = "TypeError"
                  /\ UNCHANGED << index, split_ids >>
             ELSE /\ index' = RowFilter(Joined(ld), cfg)
                  /\ split_ids' = (s :> ClusterSelect(index', cfg)) @@ split_ids
                  /\ pc' = "selected"
  /\ UNCHANGED << cfg, nrows, poolVars >>

\* the loop goes on to the next split: loader and index are to be rebound
\* (lines 24-25, 31), the previous split's are dropped
LoopNext ==
  /\ pc = "selected"
  /\ pc' = "select_ids"
  /\ loader' = NoLoader
  /\ index' = << >>
  /\ UNCHANGED << cfg, nrows, split, split_ids, poolVars >>

\* return split_ids (line 57), back in main (line 104)
SelectReturn ==
  /\ pc = "select_ids"
  /\ Remaining(1) = << >>
  /\ pc' = "mkdir"
  /\ split' = "none"
  /\ loader' = NoLoader
  /\ index' = << >>
  /\ UNCHANGED << cfg, nrows, split_ids, poolVars >>

\* select_ids alone, over its parameters and the candidate tables
InitSelect ==
  /\ InitLocals
  /\ dirs = {Cwd}
  /\ cfg \in Configs
  /\ nrows \in SplitSizes(MaxRows)

NextSelect ==
  \/ SelectSplit(ClusterIds, Resolutions, MetadataDeviations, IndexDeviations)
  \/ LoopNext
  \/ SelectReturn

SpecSelect == InitSelect /\ [][NextSelect]_vars

\* ------------------------------------------------------------------------
\* main, process_id, save_system
\* ------------------------------------------------------------------------
\* what an earlier run may have left under the working directory
PriorTrees ==
  {{Cwd},
   {Cwd, data_dir},
   {Cwd, data_dir, data_dir \o << "train" >>},
   {Cwd, data_dir, data_dir \o << "train" >>, data_dir \o << "train", 1 >>}}

\* the orders list(set(...)) can give the identifiers of one split
IdLists(ids) ==
  {l \in [1..Cardinality(ids) -> ids] : \A i, j \in DOMAIN l : l[i] = l[j] => i = j}

\* TaskLists of the first two splits only
TaskLists_NoTest(sids) ==
  {[i \in 1..Len(a) |-> [id |-> a[i], key |-> "train"]]
     \o [i \in 1..Len(b) |-> [id |-> b[i], key |-> "val"]] :
       a \in IdLists(sids["train"]), b \in IdLists(sids["val"])}

\* [(id, key, data_dir) for key in split_ids for id in split_ids[key]]
TaskLists(sids) ==
  {[i \in 1..Len(a) |-> [id |-> a[i], key |-> "train"]]
     \o [i \in 1..Len(b) |-> [id |-> b[i], key |-> "val"]]
     \o [i \in 1..Len(c) |-> [id |-> c[i], key |-> "test"]] :
       a \in IdLists(sids["train"]), b \in IdLists(sids["val"]),
       c \in IdLists(sids["test"])}

\* a task nobody took yet; finished is the place of its result among the
\* results the workers hand back to the pool, 0 while it has none
Queued ==
  [pc |-> "queued", mk |-> << >>, system |-> "unread", row |-> << >>,
   error |-> "none", finished |-> 0]

\* chain12_struc.pinder_id and chain12_struc_pred.pinder_id
NativeId(id) == << "holo", id >>

PredId(id) == << "pred", id >>

\* the row of save_system that has the predicted id whenever the predicted
\* receptor is there
SaveSystemRow_IgnoresLigand(id, system) ==
  IF ~system.pred_receptor THEN [pinder_id |-> id]
  ELSE [pinder_id |-> id, pred_pinder_id |-> PredId(id)]

\* the row save_system returns (lines 61-63, 77-93)
SaveSystemRow(id, system) ==
  IF ~system.pred_receptor THEN [pinder_id |-> id]
  ELSE IF ~system.pred_ligand THEN [pinder_id |-> id]
  ELSE [pinder_id |-> id, pred_pinder_id |-> PredId(id)]

\* whether save_system gets as far as assembling the predicted complex
AssemblesPredicted(system) == system.pred_receptor /\ system.pred_ligand

\* the tasks taken and not finished
Running == {t \in 1..Len(task) : task[t].pc \in {"mkdir", "native", "pred"}}

\* the place in the pool's result queue of the result handed back next
NextFinished ==
  Cardinality({t \in 1..Len(task) : task[t].pc \in {"done", "raised"}}) + 1

\* data_dir / key / system.native.pinder_id
SystemFolder(t) == data_dir \o << tasks[t].key, tasks[t].id >>

\* data_dir.mkdir(parents=True, exist_ok=True) (line 106)
MainMkdir ==
  /\ pc = "mkdir"
  /\ LET r == MkdirStep(DataDirMkdir, dirs)
     IN /\ dirs' = r.dirs
        /\ pc' = IF r.error = "none" THEN "tasks" ELSE r.error
  /\ UNCHANGED << selectVars, tasks, pool, task, files, rows, manifest >>

\* tasks = [...]; with Pool(20) as pool (lines 107-109)
MakeTasks ==
  /\ pc = "tasks"
  /\ \E l \in TaskLists(split_ids) :
       /\ tasks' = l
       /\ task' = [t \in 1..Len(l) |-> Queued]
  /\ pool' = "open"
  /\ pc' = "imap"
  /\ UNCHANGED << selectVars, dirs, files, rows, manifest >>

\* a worker takes the next task of the queue: process_id up to the mkdir of
\* save_system (lines 96-97, 61-65); PinderSystem(id) may raise
TaskStart(t) ==
  /\ pool = "open"
  /\ task[t].pc = "queued"
  /\ \A u \in 1..(t - 1) : task[u].pc # "queued"
  /\ Cardinality(Running) < PoolWidth
  /\ \E loaded \in BOOLEAN :
       task' = [task EXCEPT ![t] =
                  IF loaded
                  THEN [@ EXCEPT !.pc = "mkdir", !.mk = SystemFolderMkdir(SystemFolder(t))]
                  ELSE [@ EXCEPT !.pc = "raised", !.error = "PinderSystem",
                                  !.finished = NextFinished]]
  /\ UNCHANGED << pc, selectVars, tasks, pool, dirs, files, rows, manifest >>

\* one os.mkdir of system_folder.mkdir (line 65)
TaskMkdir(t) ==
  /\ pool = "open"
  /\ task[t].pc = "mkdir"
  /\ LET r == MkdirStep(task[t].mk, dirs)
     IN /\ dirs' = r.dirs
        /\ task' = [task EXCEPT ![t] =
                      IF r.error # "none"
                      THEN [@ EXCEPT !.pc = "raised", !.mk = << >>, !.error = r.error,
                                     !.finished = NextFinished]
                      ELSE [@ EXCEPT !.mk = r.mk,
                                     !.pc = IF r.mk = << >> THEN "native" ELSE "mkdir"]]
  /\ UNCHANGED << pc, selectVars, tasks, pool, files, rows, manifest >>

\* the native complex assembled, its to_pdb left for after the predicted
\* structures have been looked at
TaskNative_WriteDeferred(t) ==
  /\ pool = "open"
  /\ task[t].pc = "native"
  /\ \E assembled \in BOOLEAN :
       IF assembled
       THEN task' = [task EXCEPT ![t].pc = "pred"]
       ELSE task' = [task EXCEPT ![t].pc = "raised", ![t].error = "create_complex",
                                 ![t].finished = NextFinished]
  /\ UNCHANGED << pc, selectVars, tasks, pool, dirs, files, rows, manifest >>

\* the native complex: assembled and written (lines 66-76); create_complex
\* may raise
TaskNative(t) ==
  /\ pool = "open"
  /\ task[t].pc = "native"
  /\ \E assembled \in BOOLEAN :
       IF assembled
       THEN /\ files' = files \cup {[folder |-> SystemFolder(t), name |-> NativeId(tasks[t].id)]}
            /\ task' = [task EXCEPT ![t].pc = "pred"]
       ELSE /\ files' = files
            /\ task' = [task EXCEPT ![t].pc = "raised", ![t].error = "create_complex",
                                    ![t].finished = NextFinished]
  /\ UNCHANGED << pc, selectVars, tasks, pool, dirs, rows, manifest >>

\* the predicted complex, if both its parts are there, and the row
\* (lines 77-93, 99-100); create_complex may raise
TaskPred(t) ==
  /\ pool = "open"
  /\ task[t].pc = "pred"
  /\ \E pr \in BOOLEAN, pl \in BOOLEAN, assembled \in BOOLEAN :
       LET system == [pred_receptor |-> pr, pred_ligand |-> pl]
       IN IF AssemblesPredicted(system) /\ ~assembled
          THEN /\ files' = files
               /\ task' = [task EXCEPT ![t].pc = "raised", ![t].system = system,
                                       ![t].error = "create_complex",
                                       ![t].finished = NextFinished]
          ELSE /\ files' = IF AssemblesPredicted(system)
                           THEN files \cup {[folder |-> SystemFolder(t), name |-> PredId(tasks[t].id)]}
                           ELSE files
               /\ task' = [task EXCEPT ![t].pc = "done", ![t].system = system,
                                       ![t].row = SaveSystemRow(tasks[t].id, system)
                                                    @@ [split |-> tasks[t].key],
                                       ![t].finished = NextFinished]
  /\ UNCHANGED << pc, selectVars, tasks, pool, dirs, rows, manifest >>

\* the results taken as the workers hand them back: the next one is of the
\* task that finished next
imap_unordered(collected, results) ==
  {t \in 1..Len(results) : results[t].finished = Len(collected) + 1}

\* pool.imap: the results are taken in task order, so with `collected` taken
\* the next one is of the task after them, finished or not (line 110)
imap(collected, results) ==
  {t \in 1..Len(results) : t = Len(collected) + 1}

\* list(pool.imap(...)) gets the next result (line 110)
CollectRow ==
  /\ pc = "imap"
  /\ \E t \in imap(rows, task) :
       /\ task[t].pc = "done"
       /\ rows' = Append(rows, task[t].row)
  /\ UNCHANGED << pc, selectVars, tasks, pool, task, dirs, files, manifest >>

\* the next result is an exception: imap raises it in main, the with block
\* terminates the pool, main ends (lines 109-110)
CollectRaise ==
  /\ pc = "imap"
  /\ \E t \in imap(rows, task) :
       /\ task[t].pc = "raised"
       /\ pc' = task[t].error
  /\ pool' = "terminated"
  /\ UNCHANGED << selectVars, tasks, task, dirs, files, rows, manifest >>

\* pd.DataFrame(rows): the columns are the keys the rows have
DataFrame(rs) ==
  [written |-> TRUE,
   columns |-> UNION {DOMAIN rs[i] : i \in 1..Len(rs)},
   rows |-> rs]

\* df = pd.DataFrame(rows); df.to_csv(...) (lines 111-112)
WriteManifest ==
  /\ pc = "imap"
  /\ Len(rows) = Len(tasks)
  /\ manifest' = DataFrame(rows)
  /\ pool' = "terminated"
  /\ pc' = "done"
  /\ UNCHANGED << selectVars, tasks, task, dirs, files, rows >>

\* main, on a dataset that gives it at most MaxTasks tasks
Init ==
  /\ InitLocals
  /\ cfg = DefaultConfig
  /\ nrows \in SplitSizes(MaxTasks)
  /\ dirs \in PriorTrees

Next ==
  \/ SelectSplit({"C1"}, {1}, {"no_metadata"}, {"len1_over", "ecod_null_L"})
  \/ LoopNext
  \/ SelectReturn
  \/ MainMkdir
  \/ MakeTasks
  \/ \E t \in 1..Len(task) : TaskStart(t)
  \/ \E t \in 1..Len(task) : TaskMkdir(t)
  \/ \E t \in 1..Len(task) : TaskNative(t)
  \/ \E t \in 1..Len(task) : TaskPred(t)
  \/ CollectRow
  \/ CollectRaise
  \/ WriteManifest

Spec == Init /\ [][Next]_vars

\* ------------------------------------------------------------------------
\* Claims about select_ids
\* ------------------------------------------------------------------------
\* the loop has just done split `split`: loader and index are that split's
SplitDone == pc = "selected"

\* (resolution, id) tuples compared lexicographically, a missing resolution
\* after every number
TupleLess(a, b) ==
  LET ra == IF a.resolution = NaN THEN 1000 ELSE a.resolution
      rb == IF b.resolution = NaN THEN 1000 ELSE b.resolution
  IN ra < rb \/ (ra = rb /\ a.id < b.id)

\* the rows of table t in the cluster of row i that come before row i
Ahead(t, i) ==
  {j \in 1..Len(t) : /\ j # i
                     /\ t[j].cluster_id = t[i].cluster_id
                     /\ \/ TupleLess(t[j], t[i])
                        \/ ~TupleLess(t[i], t[j]) /\ j < i}

\* the rows of table t that are among the k smallest of their cluster
Smallest(t, k) == {i \in 1..Len(t) : Cardinality(Ahead(t, i)) < k}

\* C1: for the split just processed, the returned identifiers are exactly the
\* identifiers of the K rows with the smallest (resolution, id) tuples of every
\* cluster of the row-filtered table (index), at most K per cluster, whatever the
\* other splits held
C1_ClusterCap ==
  SplitDone =>
    /\ split_ids[split] = {index[i].id : i \in Smallest(index, cfg.max_per_cluster)}
    /\ \A c \in ClusterIds :
         Cardinality({id \in split_ids[split] :
                        \E i \in 1..Len(index) :
                          index[i].id = id /\ index[i].cluster_id = c})
           <= cfg.max_per_cluster

\* a cluster of the filtered table has more rows than the cap, two of them
\* tie on the resolution, and it lost a row
C1_Witness ==
  /\ SplitDone
  /\ \E i, j \in 1..Len(index) :
       /\ i # j
       /\ index[i].cluster_id = index[j].cluster_id
       /\ index[i].resolution = index[j].resolution
       /\ index[i].id \in split_ids[split]
       /\ index[j].id \notin split_ids[split]

\* the joined table of the split just done, recomputed from the loader
JoinedRows == Joined(loader)

\* the names of a comma-delimited field: its maximal comma-free pieces
Names(s) ==
  LET piece(i, j) ==
        /\ i <= j + 1
        /\ \A k \in i..j : s[k] # ","
        /\ i = 1 \/ s[i - 1] = ","
        /\ j = Len(s) \/ s[j + 1] = ","
  IN UNION {{SubSeq(s, i, j) : j \in {k \in 0..Len(s) : piece(i, k)}} : i \in 1..(Len(s) + 1)}

\* the row-level conjunction as the claim words it
Admissible(r) ==
  /\ r.length1 + r.length2 <= cfg.max_length
  /\ cfg.min_length_per_monomer <= r.length1
  /\ r.length1 <= cfg.max_length_per_monomer
  /\ cfg.min_length_per_monomer <= r.length2
  /\ r.length2 <= cfg.max_length_per_monomer
  /\ r.label = "BIO"
  /\ r.method = "X-RAY DIFFRACTION"
  /\ r.cluster_id_L # r.cluster_id_R
  /\ r.uniprot_L # r.uniprot_R
  /\ \A x \in Names(r.ECOD_names_L) : x \notin Names(r.ECOD_names_R)

\* C2: every identifier returned for the split just processed belongs to a
\* row that satisfies the whole row-level conjunction (length bounds, label,
\* method, differing side clusters and UniProt ids, disjoint ECOD name sets);
\* a row violating a conjunct is never selected
C2_SelectedRowsAdmissible ==
  SplitDone =>
    LET joined == JoinedRows
    IN \A i \in 1..Len(joined) :
         joined[i].id \in split_ids[split] => Admissible(joined[i])

\* a split with a selected row and a row left out for a conjunct it violates
C2_Witness ==
  /\ SplitDone
  /\ split_ids[split] # {}
  /\ LET joined == JoinedRows
     IN \E i \in 1..Len(joined) :
          /\ ~Admissible(joined[i])
          /\ joined[i].id \notin split_ids[split]

\* C6 (as claimed): a row with a null ECOD_names_L or ECOD_names_R is
\* filtered out and the pass goes on: once the split's table is loaded,
\* select_ids has not raised and the split has its selection, without that row
C6_NullEcodFailsClosed ==
  (split # "none" /\ EcodRaises(loader.index)) =>
    /\ pc = "selected"
    /\ \A i \in 1..Len(loader.index) :
         (loader.index[i].ECOD_names_L = StrNaN \/ loader.index[i].ECOD_names_R = StrNaN)
           => loader.index[i].id \notin split_ids[split]

\* C7 (as claimed): every identifier returned for the split just processed
\* is of a candidate that passes every configured whole-candidate and
\* sub-entity predicate
C7_SelectedPassFilters ==
  SplitDone =>
    LET joined == JoinedRows
    IN \A i \in 1..Len(joined) :
         joined[i].id \in split_ids[split] => joined[i].filters_pass

\* the ways to reorder n rows
Orders ==
  [n \in 0..MaxRows |->
     {g \in [1..n -> 1..n] : \A i, j \in 1..n : g[i] = g[j] => i = j}]

\* the orders a table's rows can come in
RowOrders(t) == {[i \in 1..Len(t) |-> t[f[i]]] : f \in Orders[Len(t)]}

Reverse(t) == [i \in 1..Len(t) |-> t[Len(t) + 1 - i]]

\* what select_ids selects from index ix and metadata md
Selection(ix, md) ==
  ClusterSelect(RowFilter(Joined([index |-> ix, metadata |-> md]), cfg), cfg)

\* C8: the identifiers selected for a split are those select_ids computes
\* from the same rows in another order: the index in any order, and the
\* metadata reversed under the index as it is or reversed
C8_OrderIndependent ==
  SplitDone =>
    /\ \A ix \in RowOrders(loader.index) :
         Selection(ix, loader.metadata) = split_ids[split]
    /\ \A ix \in {loader.index, Reverse(loader.index)} :
         Selection(ix, Reverse(loader.metadata)) = split_ids[split]

\* the cap dropped a row that stands before a kept row of its cluster in the
\* input: taking rows in input order would have selected otherwise
C8_Witness ==
  /\ SplitDone
  /\ \E i, j \in 1..Len(index) :
       /\ i < j
       /\ index[i].cluster_id = index[j].cluster_id
       /\ index[i].resolution = index[j].resolution
       /\ index[i].id \notin split_ids[split]
       /\ index[j].id \in split_ids[split]

\* ------------------------------------------------------------------------
\* Claims about main, process_id and save_system
\* ------------------------------------------------------------------------
\* the tasks that returned a row
Returned == {t \in 1..Len(task) : task[t].pc = "done"}

\* the predicted structure file of task t
PredFile(t) == [folder |-> SystemFolder(t), name |-> PredId(tasks[t].id)]

\* C3: the row a task returns has a predicted output id exactly when both
\* system.pred_receptor and system.pred_ligand were there; when one is
\* missing, the task wrote no predicted structure file
C3_PredIdIffBothPredicted ==
  \A t \in Returned :
    LET both == task[t].system.pred_receptor /\ task[t].system.pred_ligand
    IN /\ ("pred_pinder_id" \in DOMAIN task[t].row) <=> both
       /\ ~both => PredFile(t) \notin files

\* one task returned without the predicted ligand alone, another with both
\* predicted parts and its predicted file
C3_Witness ==
  \E t, u \in Returned :
    /\ task[t].system.pred_receptor /\ ~task[t].system.pred_ligand
    /\ "pred_pinder_id" \notin DOMAIN task[t].row
    /\ task[u].system.pred_receptor /\ task[u].system.pred_ligand
    /\ PredFile(u) \in files

\* the rows of the manifest for identifier id of split key
ManifestRows(id, key) ==
  {i \in 1..Len(manifest.rows) :
     manifest.rows[i].pinder_id = id /\ manifest.rows[i].split = key}

\* C4: when the manifest is written every task has completed, and the
\* manifest has exactly one row for every selected identifier of every split,
\* with that split, and no other row
C4_ManifestOneRowPerTask ==
  manifest.written =>
    /\ \A t \in 1..Len(task) : task[t].pc = "done"
    /\ \A key \in SplitNames : \A id \in split_ids[key] :
         Cardinality(ManifestRows(id, key)) = 1
    /\ Len(manifest.rows) =
         Cardinality(split_ids["train"]) + Cardinality(split_ids["val"])
           + Cardinality(split_ids["test"])

\* a manifest of two splits, one of its rows without a predicted complex
C4_Witness ==
  /\ manifest.written
  /\ \E i, j \in 1..Len(manifest.rows) :
       /\ manifest.rows[i].split # manifest.rows[j].split
       /\ "pred_pinder_id" \notin DOMAIN manifest.rows[i]

\* C5 (as claimed): a task that raises in its worker does not tear the pool
\* down: the pool is terminated only with the manifest written, a row in it
\* for every task
C5_TaskFailureIsolated ==
  (\E t \in 1..Len(task) : task[t].pc = "raised") =>
    (pool = "terminated" => manifest.written /\ Len(manifest.rows) = Len(tasks))

\* C9: neither main's nor a task's directory creation ever ends in
\* FileExistsError, whatever directories are there already or appear
\* meanwhile
C9_MkdirNeverFileExists ==
  /\ pc # "FileExistsError"
  /\ \A t \in 1..Len(task) : task[t].error # "FileExistsError"

\* a task found the split directory missing and is about to create it, but
\* another worker has created it in between
C9_Witness ==
  \E t \in 1..Len(task) :
    /\ task[t].pc = "mkdir"
    /\ Len(task[t].mk) = 2
    /\ Head(task[t].mk).path = data_dir \o << tasks[t].key >>
    /\ Head(task[t].mk).path \in dirs

\* C10 (as claimed): the manifest has the four columns identifier, native
\* output id, predicted output id and split, whatever its rows are
C10_ManifestFixedColumns ==
  manifest.written =>
    /\ {"pinder_id", "pred_pinder_id", "split"} \subseteq manifest.columns
    /\ Cardinality(manifest.columns) = 4

\* ------------------------------------------------------------------------
\* Claims about save_system's files
\* ------------------------------------------------------------------------
\* the native structure file of task t
NativeFile(t) == [folder |-> SystemFolder(t), name |-> NativeId(tasks[t].id)]

\* the files under the system folder of task t
FilesUnder(t) == {f \in files : f.folder = SystemFolder(t)}

\* C11: a task that is about to look at system.pred_receptor has its native
\* file under data_dir/<split>/<id> already, and has not looked at the
\* predicted structures yet; a task that returned a row left exactly the
\* native file there when a predicted structure was missing, and exactly two
\* files, the native and the predicted one, when both were there
C11_NativeBeforePredicted ==
  /\ \A t \in 1..Len(task) :
       task[t].pc = "pred" => NativeFile(t) \in files /\ task[t].system = "unread"
  /\ \A t \in Returned :
       IF task[t].system.pred_receptor /\ task[t].system.pred_ligand
       THEN /\ FilesUnder(t) = {NativeFile(t), PredFile(t)}
            /\ Cardinality(FilesUnder(t)) = 2
       ELSE FilesUnder(t) = {NativeFile(t)}

\* one task stopped early at the missing predicted receptor and left its
\* native file alone, another task found both predicted structures and left
\* two files
C11_Witness ==
  \E t, u \in Returned :
    /\ ~task[t].system.pred_receptor
    /\ FilesUnder(t) = {NativeFile(t)}
    /\ task[u].system.pred_receptor /\ task[u].system.pred_ligand
    /\ Cardinality(FilesUnder(u)) = 2

\* ------------------------------------------------------------------------
\* Claims about the joined table
\* ------------------------------------------------------------------------
\* the rows of joined table j with identifier id
RowsOfId(j, id) == {k \in 1..Len(j) : j[k].id = id}

\* every row of the primary index is in joined table j with its index
\* columns, and with a null resolution when the metadata has no row for it
KeepsIndexRows(ld, j) ==
  \A i \in 1..Len(ld.index) :
    LET r == ld.index[i]
    IN /\ \E k \in RowsOfId(j, r.id) :
            j[k] = WithDerived(JoinedRow(r, j[k].resolution))
       /\ MetadataOf(r, ld.metadata) = << >> =>
            \A k \in RowsOfId(j, r.id) : j[k].resolution = NaN

\* no identifier is on two rows of joined table j
IdsOnce(j) == \A k, l \in 1..Len(j) : j[k].id = j[l].id => k = l

\* C12 (as claimed): the table of lines 31-33 has every row of the primary
\* index, the rows without metadata too, with a null resolution, and has
\* each identifier exactly once
C12_JoinKeepsEachIdOnce ==
  SplitDone =>
    LET j == Joined(loader)
    IN KeepsIndexRows(loader, j) /\ IdsOnce(j)

\* ------------------------------------------------------------------------
\* Claims about the order of the collected rows
\* ------------------------------------------------------------------------
\* the place of split s in the loop of select_ids
SplitRank(s) == CHOOSE i \in 1..Len(Splits) : Splits[i] = s

\* C13: in whatever order the workers finish, the i-th row main has collected
\* is the row of the i-th task, with its identifier and its split, so the
\* rows, and the rows of the manifest, come grouped by split, train before
\* val before test
C13_RowsInTaskOrder ==
  /\ Len(rows) <= Len(tasks)
  /\ \A i \in 1..Len(rows) :
       /\ rows[i] = task[i].row
       /\ rows[i].pinder_id = tasks[i].id
       /\ rows[i].split = tasks[i].key
  /\ \A i, j \in 1..Len(rows) :
       i < j => SplitRank(rows[i].split) <= SplitRank(rows[j].split)
  /\ manifest.written => manifest.rows = rows /\ Len(rows) = Len(tasks)

\* the manifest of two tasks of different splits, the second of which
\* finished before the first
C13_Witness ==
  /\ manifest.written
  /\ Len(tasks) = 2
  /\ task[2].finished < task[1].finished
  /\ tasks[1].key # tasks[2].key
  /\ manifest.rows[1].pinder_id = tasks[1].id

====
